---- MODULE Spec2Model ----
(***************************************************************************)
(* mm-weather (weather.go): a Mattermost slash-command backend.            *)
(*                                                                         *)
(* main() resolves the weather-provider API key and the listen port from   *)
(* command-line flags, the environment and a config file read through      *)
(* viper, stores the key in the package variable weatherAPIKey and serves  *)
(* the route /weather.  net/http runs weatherHandler on one goroutine per  *)
(* inbound request.  Every goroutine logs through LogMessage, which is     *)
(* three separate calls on the process-wide standard logger: SetOutput,    *)
(* SetFlags and Printf.  Each of the three is atomic (the logger holds a   *)
(* mutex inside each call) but the sequence is not, so the model gives     *)
(* each of them its own step in the request goroutines.                    *)
(***************************************************************************)
EXTENDS Integers, Sequences, FiniteSets, TLC

VARIABLES
    args,           \* command line: [debug, config, token, port]          (flag.Parse)
    env,            \* environment: [WEATHER_API_TOKEN, MM_LISTEN_PORT], each [set, val]
    configFile,     \* the file named by -config: [readable, apiKey, listenPort]
    mainPc,         \* position of main()
    debugMode,      \* package variable debugMode
    weatherAPIKey,  \* package variable weatherAPIKey
    apiToken,       \* main's local apiToken
    listenPort,     \* main's local listenPort
    viperConfig,    \* what viper holds after ReadInConfig (nothing before)
    logOutput,      \* the standard logger's output destination
    logFlags,       \* the standard logger's flags
    lastLog,        \* the line most recently printed by the standard logger
    req             \* one record per request goroutine

vars == <<args, env, configFile, mainPc, debugMode, weatherAPIKey, apiToken,
          listenPort, viperConfig, logOutput, logFlags, lastLog, req>>

startupInputs == <<args, env, configFile>>
mainVars == <<mainPc, debugMode, weatherAPIKey, apiToken, listenPort, viperConfig>>
logVars == <<logOutput, logFlags, lastLog>>

----------------------------------------------------------------------------
(* Defaults & type definitions                                             *)

defaultPort == "8080"
defaultConfigFile == "config.json"

debugLevel == "DEBUG"
infoLevel == "INFO"
warningLevel == "WARNING"
errorLevel == "ERROR"

Stderr == "stderr"
Stdout == "stdout"

\* log.Ldate | log.Ltime, which is also log.LstdFlags, the logger's initial flags.
LdateLtime == 3

StatusOK == 200
StatusInternalServerError == 500

----------------------------------------------------------------------------
(* The inputs the model draws from.                                        *)

\* The request goroutines the server runs at the same time.
NumRequests == 2
Requests == 1..NumRequests

Unset == [set |-> FALSE, val |-> ""]
EnvValue(v) == [set |-> TRUE, val |-> v]

TokenFlags == {"", "flagKey"}
TokenEnvs == {Unset, EnvValue(""), EnvValue("envKey")}
PortFlags == {"", "7070"}
PortEnvs == {Unset, EnvValue(""), EnvValue("6060")}

\* A config file that cannot be read or parsed, and the readable ones; a key
\* that is absent from the file reads as "" through viper.GetString.
Unreadable == [readable |-> FALSE, apiKey |-> "", listenPort |-> ""]
ConfigFiles ==
    {Unreadable} \cup
    [readable : {TRUE}, apiKey : {"", "fileKey"}, listenPort : {"", "9090"}]

\* The inbound URL's query: a set of <<name, value>> pairs.
Queries == { {}, {<<"text", "">>}, {<<"text", "London">>} }

\* JSON values found at a path of the provider's document.
JMissing == [t |-> "missing", s |-> "", n |-> 0]
JStr(s) == [t |-> "string", s |-> s, n |-> 0]
JNum(n) == [t |-> "number", s |-> "", n |-> n]
\* A JSON number outside the range of float64, such as 1e400.
JHuge == [t |-> "huge", s |-> "", n |-> 0]

----------------------------------------------------------------------------
(* Logging functions                                                       *)

\* LogMessage's choice of destination: stderr for ERROR, stdout otherwise.
LogDest(level) == IF level = errorLevel THEN Stderr ELSE Stdout

\* The line log.Printf writes: it goes to whatever the logger's output is at
\* the time of the Printf call.
LogLine(level, out) == [level |-> level, dest |-> out]

\* The levels a DebugPrint call logs at: DEBUG when debugMode, nothing otherwise.
DebugLevels(debug) == IF debug THEN <<debugLevel>> ELSE <<>>

\* LogMessage run to completion with no other goroutine in between, once per
\* level of levels, as main() runs it before the listener starts.
LoggerAfter(levels) ==
    IF levels = <<>>
    THEN [out |-> logOutput, flags |-> logFlags, last |-> lastLog]
    ELSE LET lv == levels[Len(levels)]
         IN [out |-> LogDest(lv), flags |-> LdateLtime,
             last |-> LogLine(lv, LogDest(lv))]

MainLogs(levels) ==
    /\ logOutput' = LoggerAfter(levels).out
    /\ logFlags' = LoggerAfter(levels).flags
    /\ lastLog' = LoggerAfter(levels).last

----------------------------------------------------------------------------
(* main(): configuration                                                   *)

\* os.LookupEnv
LookupEnv(name) == env[name]

\* viper.GetString: "" for a key that is absent, and for any key while no
\* config has been read.
ViperGetString(cfg, key) == IF cfg.readable THEN cfg[key] ELSE ""

NoConfig == Unreadable

\* Lines 184-191: the flags' values land in main's locals and in debugMode.
ParseFlags ==
    /\ mainPc = "start"
    /\ debugMode' = args.debug
    /\ apiToken' = args.token
    /\ listenPort' = args.port
    /\ mainPc' = "L196"
    /\ UNCHANGED <<startupInputs, weatherAPIKey, viperConfig, logVars, req>>

\* Line 196-199: does main() go to the config file for the API key?
KeyNeedsConfig == apiToken = "" /\ ~LookupEnv("WEATHER_API_TOKEN").set

\* Lines 196-213: the value of apiToken after the lookup chain (when
\* ReadInConfig did not fail).
LookedUpToken ==
    IF apiToken # "" THEN apiToken
    ELSE IF LookupEnv("WEATHER_API_TOKEN").set
         THEN LookupEnv("WEATHER_API_TOKEN").val
         ELSE ViperGetString(configFile, "apiKey")

\* A main() that lets an empty key through.
KeyMissing_Never(token) == FALSE

\* Line 215: the check that ends the process with os.Exit(2).
KeyMissing(token) == token = ""

\* Lines 196-220.
ResolveKey ==
    /\ mainPc = "L196"
    /\ IF KeyNeedsConfig /\ ~configFile.readable
       THEN \* viper.ReadInConfig fails: panic
            /\ mainPc' = "panicConfig"
            /\ UNCHANGED <<apiToken, weatherAPIKey, viperConfig, logVars>>
       ELSE /\ apiToken' = LookedUpToken
            /\ viperConfig' = IF KeyNeedsConfig THEN configFile ELSE viperConfig
            /\ IF KeyMissing(LookedUpToken)
               THEN /\ MainLogs(DebugLevels(debugMode) \o <<errorLevel>>)
                    /\ mainPc' = "exit2"
                    /\ UNCHANGED weatherAPIKey
               ELSE /\ MainLogs(DebugLevels(debugMode))
                    /\ weatherAPIKey' = LookedUpToken
                    /\ mainPc' = "L224"
    /\ UNCHANGED <<startupInputs, debugMode, listenPort, req>>

\* Lines 224-241: the value of listenPort after the lookup chain.  The config
\* is whatever viper holds: main() does not read the file here.
LookedUpPort ==
    IF listenPort # "" THEN listenPort
    ELSE IF LookupEnv("MM_LISTEN_PORT").set
         THEN LookupEnv("MM_LISTEN_PORT").val
         ELSE IF ViperGetString(viperConfig, "listenPort") = ""
              THEN defaultPort
              ELSE ViperGetString(viperConfig, "listenPort")

\* Lines 224-241.
ResolvePort ==
    /\ mainPc = "L224"
    /\ listenPort' = LookedUpPort
    /\ MainLogs(DebugLevels(debugMode))
    /\ mainPc' = "L244"
    /\ UNCHANGED <<startupInputs, debugMode, weatherAPIKey, apiToken, viperConfig, req>>

\* Lines 244-250: the route is registered and ListenAndServe either serves
\* or returns an error (the port cannot be bound), which panics.
StartListener ==
    /\ mainPc = "L244"
    /\ MainLogs(<<infoLevel>> \o DebugLevels(debugMode))
    /\ \E bound \in BOOLEAN : mainPc' = IF bound THEN "serving" ELSE "panicListen"
    /\ UNCHANGED <<startupInputs, debugMode, weatherAPIKey, apiToken, listenPort,
                   viperConfig, req>>

MainNext == ParseFlags \/ ResolveKey \/ ResolvePort \/ StartListener

----------------------------------------------------------------------------
(* The weather provider, as the request goroutines see it                  *)

\* What http.Get returns: a transport error, or a response with a status.
\* 400 is the provider's "no matching location", 403 its "quota exceeded".
ProviderStatuses == {200, 400, 403}

Doc(kind, name, temp, cond, error) ==
    [kind |-> kind, name |-> name, temp |-> temp, cond |-> cond, error |-> error]

\* Bodies that are not a JSON object: not JSON at all, a JSON array, JSON null;
\* and a JSON object nested deeper than encoding/json goes (10000 levels).
NotJSON == Doc("notjson", JMissing, JMissing, JMissing, JMissing)
ArrayBody == Doc("array", JMissing, JMissing, JMissing, JMissing)
NullBody == Doc("null", JMissing, JMissing, JMissing, JMissing)
DeepBody == Doc("deep", JMissing, JMissing, JMissing, JMissing)

\* JSON objects: what stands at location.name, current.temp_c and
\* current.condition.text (nothing, a value of the wrong type, or a value of
\* the expected type), and at error.code.
WeatherObjects ==
    { Doc("object", n, t, c, JMissing) :
        n \in {JMissing, JNum(7), JStr("Paris")},
        t \in {JMissing, JStr("warm"), JNum(21), JHuge},
        c \in {JMissing, JNum(3), JStr("Sunny")} }

ErrorBody(code) == Doc("object", JMissing, JMissing, JMissing, JNum(code))

\* The bodies the provider sends with each status.
BodiesFor(status) ==
    IF status = 200 THEN WeatherObjects \cup {NotJSON, ArrayBody, NullBody, DeepBody}
    ELSE IF status = 400 THEN {ErrorBody(1006)}
    ELSE {ErrorBody(2007)}

NoDoc == Doc("none", JMissing, JMissing, JMissing, JMissing)

GetError == "dial tcp: connect: connection refused"
ReadError == "unexpected EOF"

\* The object holds a number that does not fit float64.
HasHugeNumber(body) ==
    \E f \in {"name", "temp", "cond", "error"} : body[f] = JHuge

\* json.Unmarshal(body, &result) with result a map[string]interface{}: text
\* that is not JSON and JSON that is no object fail, and so does an object
\* nested too deep or holding a number outside float64 (every number is
\* decoded as a float64); null leaves the map nil.
UnmarshalError(body) ==
    IF body.kind = "notjson" THEN "invalid character '<' looking for beginning of value"
    ELSE IF body.kind = "array"
         THEN "json: cannot unmarshal array into Go value of type map[string]interface {}"
    ELSE IF body.kind = "deep" THEN "exceeded max depth"
    ELSE IF body.kind = "object" /\ HasHugeNumber(body)
         THEN "json: cannot unmarshal number 1e400 into Go value of type float64"
         ELSE ""

\* json.Marshal(result): the decoded map written out again (a nil map as null).
MarshalMap(result) == result

----------------------------------------------------------------------------
(* jsonparser and the response                                             *)

\* The value at one of the three paths of the document; a document that is
\* no object has nothing at any path.
Lookup(doc, field) == IF doc.kind = "object" THEN doc[field] ELSE JMissing

\* An extraction that hands back a placeholder, not the zero value, on error.
GetString_Placeholder(v) ==
    [val |-> IF v.t = "string" THEN v.s ELSE "null", err |-> v.t # "string"]

\* jsonparser.GetString: the string, or "" and an error.
GetString(v) == [val |-> IF v.t = "string" THEN v.s ELSE "", err |-> v.t # "string"]

\* jsonparser.GetFloat: the number, or 0 and an error.
GetFloat(v) == [val |-> IF v.t = "number" THEN v.n ELSE 0, err |-> v.t # "number"]

\* Line 111: fmt.Sprintf("Current weather in %s: %vÂ°C - %s", ...), the
\* literal as the source file has it; the values stand at places 2, 4 and 6.
Sprintf(name, temp, cond) ==
    <<"Current weather in ", name, ": ", temp, "Â°C - ", cond>>

\* Lines 106-118: the three extractions, their errors dropped, and the payload.
ResponsePayload(apiResponse) ==
    [ResponseType |-> "in_channel",
     Text |-> Sprintf(GetString(Lookup(apiResponse, "name")).val,
                      GetFloat(Lookup(apiResponse, "temp")).val,
                      GetString(Lookup(apiResponse, "cond")).val)]

\* json.Marshal(responsePayload), by the struct's tags.  Marshalling a struct
\* of two strings cannot fail.
MarshalPayload(payload) ==
    [err |-> "",
     json |-> [kind |-> "json", response_type |-> payload.ResponseType,
               text |-> payload.Text]]

\* The body http.Error writes: the error's text and a newline, as plain text.
PlainBody(msg) == [kind |-> "text", response_type |-> "", text |-> <<msg, "\n">>]

NoBody == [kind |-> "none", response_type |-> "", text |-> <<>>]

----------------------------------------------------------------------------
(* Request goroutines                                                      *)

\* A goroutine that handles no request.
IdleRequest ==
    [pc |-> "idle",
     query |-> {},              \* inboundRequest.URL.Query()
     location |-> "",           \* weatherHandler's local
     callLocation |-> "",       \* callWeatherAPI's parameter
     level |-> "", ret |-> "",  \* the LogMessage call in progress and where it returns
     gets |-> 0,                \* outbound GETs issued for this request
     keyUsed |-> "",            \* the key= parameter of the outbound GET
     provStatus |-> 0,          \* resp.StatusCode (0: no response)
     body |-> NoDoc,            \* io.ReadAll(resp.Body)
     err |-> "",                \* the error callWeatherAPI returns ("" is nil)
     apiResponse |-> NoDoc,     \* the string callWeatherAPI returns
     commits |-> 0,             \* WriteHeader calls on the responseWriter
     status |-> 0,              \* the committed status (0: none)
     contentType |-> "",
     respBody |-> NoBody,       \* what was given to the responseWriter
     writeErr |-> FALSE]        \* responseWriter.Write failed

\* url.Values.Get: the value of the parameter, "" when it is absent.
QueryGet(query, name) ==
    IF \E p \in query : p[1] = name
    THEN (CHOOSE p \in query : p[1] = name)[2]
    ELSE ""

\* A handler that forwards the text parameter as it came.
DefaultLocation_AsGiven(text) == text

\* Lines 95-97.
DefaultLocation(text) == IF text = "" THEN "auto:ip" ELSE text

\* A call of LogMessage(level, ...) that returns to next.
LogMessage(rec, level, next) ==
    [rec EXCEPT !.pc = "SetOutput", !.level = level, !.ret = next]

\* A call of DebugPrint(...) that returns to next.
DebugPrint(rec, next) ==
    IF debugMode THEN LogMessage(rec, debugLevel, next) ELSE [rec EXCEPT !.pc = next]

\* responseWriter.WriteHeader: the first call commits the status.
WriteHeader(rec, code) ==
    [rec EXCEPT !.commits = @ + 1, !.status = IF @ = 0 THEN code ELSE @]

\* An error response that keeps the error's text to the server.
HttpError_NoText(rec, msg, code) ==
    [WriteHeader([rec EXCEPT !.contentType = "text/plain; charset=utf-8"], code)
        EXCEPT !.respBody = PlainBody("")]

\* http.Error(responseWriter, msg, code)
HttpError(rec, msg, code) ==
    [WriteHeader([rec EXCEPT !.contentType = "text/plain; charset=utf-8"], code)
        EXCEPT !.respBody = PlainBody(msg)]

\* Lines 128-130 up to the Write call.
WriteJSON(rec, json) ==
    [WriteHeader([rec EXCEPT !.contentType = "application/json"], StatusOK)
        EXCEPT !.respBody = json]

\* Lines 89-90: net/http starts weatherHandler for an inbound request.
Receive(r) ==
    /\ mainPc = "serving"
    /\ req[r].pc = "idle"
    /\ \E q \in Queries :
         req' = [req EXCEPT ![r] =
                    LogMessage([IdleRequest EXCEPT !.query = q], infoLevel, "L93")]
    /\ UNCHANGED <<startupInputs, mainVars, logVars>>

\* Lines 51-55 of LogMessage: log.SetOutput.
SetOutput(r) ==
    /\ req[r].pc = "SetOutput"
    /\ logOutput' = LogDest(req[r].level)
    /\ req' = [req EXCEPT ![r].pc = "SetFlags"]
    /\ UNCHANGED <<startupInputs, mainVars, logFlags, lastLog>>

\* Line 56 of LogMessage: log.SetFlags.
SetFlags(r) ==
    /\ req[r].pc = "SetFlags"
    /\ logFlags' = LdateLtime
    /\ req' = [req EXCEPT ![r].pc = "Printf"]
    /\ UNCHANGED <<startupInputs, mainVars, logOutput, lastLog>>

\* Line 57 of LogMessage: log.Printf, to the logger's current output.
Printf(r) ==
    /\ req[r].pc = "Printf"
    /\ lastLog' = LogLine(req[r].level, logOutput)
    /\ req' = [req EXCEPT ![r].pc = req[r].ret]
    /\ UNCHANGED <<startupInputs, mainVars, logOutput, logFlags>>

\* Lines 93-94.
ReadText(r) ==
    /\ req[r].pc = "L93"
    /\ LET text == QueryGet(req[r].query, "text")
       IN req' = [req EXCEPT ![r] = DebugPrint([@ EXCEPT !.location = text], "L95")]
    /\ UNCHANGED <<startupInputs, mainVars, logVars>>

\* Lines 95-100 and 138: the default location, and the call of callWeatherAPI.
CallWeatherAPI(r) ==
    /\ req[r].pc = "L95"
    /\ LET loc == DefaultLocation(req[r].location)
       IN req' = [req EXCEPT ![r] =
                    DebugPrint([@ EXCEPT !.location = loc, !.callLocation = loc], "L140")]
    /\ UNCHANGED <<startupInputs, mainVars, logVars>>

\* A client that tries the GET once more after a transport error.
HttpGet_Retry(r) ==
    /\ req[r].pc = "L140"
    /\ LET sent == [req[r] EXCEPT !.gets = @ + 1, !.keyUsed = weatherAPIKey]
           again == [sent EXCEPT !.gets = @ + 1]
       IN \/ req' = [req EXCEPT ![r] =
                       LogMessage([again EXCEPT !.err = GetError], errorLevel, "L101")]
          \/ \E s \in ProviderStatuses :
                req' = [req EXCEPT ![r] = [sent EXCEPT !.provStatus = s, !.pc = "L153"]]
    /\ UNCHANGED <<startupInputs, mainVars, logVars>>

\* Lines 140-149: the outbound GET.
HttpGet(r) ==
    /\ req[r].pc = "L140"
    /\ LET sent == [req[r] EXCEPT !.gets = @ + 1, !.keyUsed = weatherAPIKey]
       IN \/ req' = [req EXCEPT ![r] =
                       LogMessage([sent EXCEPT !.err = GetError], errorLevel, "L101")]
          \/ \E s \in ProviderStatuses :
                req' = [req EXCEPT ![r] = [sent EXCEPT !.provStatus = s, !.pc = "L153"]]
    /\ UNCHANGED <<startupInputs, mainVars, logVars>>

\* Lines 153-157: io.ReadAll.
ReadAll(r) ==
    /\ req[r].pc = "L153"
    /\ \/ req' = [req EXCEPT ![r] =
                    LogMessage([@ EXCEPT !.err = ReadError], errorLevel, "L101")]
       \/ \E b \in BodiesFor(req[r].provStatus) :
             req' = [req EXCEPT ![r] = [@ EXCEPT !.body = b, !.pc = "L160"]]
    /\ UNCHANGED <<startupInputs, mainVars, logVars>>

\* Lines 160-175: decode, encode again, return.
Decode(r) ==
    /\ req[r].pc = "L160"
    /\ LET body == req[r].body
       IN req' = [req EXCEPT ![r] =
                    IF UnmarshalError(body) # ""
                    THEN LogMessage([@ EXCEPT !.err = UnmarshalError(body)],
                                    errorLevel, "L101")
                    ELSE DebugPrint([@ EXCEPT !.apiResponse = MarshalMap(body)], "L101")]
    /\ UNCHANGED <<startupInputs, mainVars, logVars>>

\* Lines 101-104: callWeatherAPI returned an error.
HandlerFail(r) ==
    /\ req[r].pc = "L101"
    /\ req[r].err # ""
    /\ req' = [req EXCEPT ![r] =
                  [HttpError(@, req[r].err, StatusInternalServerError)
                      EXCEPT !.pc = "done"]]
    /\ UNCHANGED <<startupInputs, mainVars, logVars>>

\* Lines 106-133: callWeatherAPI returned a document.
HandlerRespond(r) ==
    /\ req[r].pc = "L101"
    /\ req[r].err = ""
    /\ LET m == MarshalPayload(ResponsePayload(req[r].apiResponse))
       IN IF m.err # ""
          THEN req' = [req EXCEPT ![r] =
                         [HttpError(@, m.err, StatusInternalServerError)
                             EXCEPT !.pc = "done"]]
          ELSE \E written \in BOOLEAN :
                 req' = [req EXCEPT ![r] =
                           IF written
                           THEN [WriteJSON(@, m.json) EXCEPT !.pc = "done"]
                           ELSE LogMessage([WriteJSON(@, m.json) EXCEPT !.writeErr = TRUE],
                                           errorLevel, "done")]
    /\ UNCHANGED <<startupInputs, mainVars, logVars>>

\* weatherHandler has returned; the goroutine is free for the next request.
Finish(r) ==
    /\ req[r].pc = "done"
    /\ req' = [req EXCEPT ![r] = IdleRequest]
    /\ UNCHANGED <<startupInputs, mainVars, logVars>>

RequestNext(r) ==
    \/ Receive(r) \/ SetOutput(r) \/ SetFlags(r) \/ Printf(r)
    \/ ReadText(r) \/ CallWeatherAPI(r) \/ HttpGet(r) \/ ReadAll(r) \/ Decode(r)
    \/ HandlerFail(r) \/ HandlerRespond(r) \/ Finish(r)

----------------------------------------------------------------------------
(* Specifications                                                          *)

\* The process as main() finds it: any command line, environment and config
\* file, the package variables at their declared values, the standard logger
\* as package log creates it.
Init ==
    /\ args \in [debug : BOOLEAN, config : {defaultConfigFile},
                 token : TokenFlags, port : PortFlags]
    /\ env \in [WEATHER_API_TOKEN : TokenEnvs, MM_LISTEN_PORT : PortEnvs]
    /\ configFile \in ConfigFiles
    /\ mainPc = "start"
    /\ debugMode = FALSE
    /\ weatherAPIKey = ""
    /\ apiToken = ""
    /\ listenPort = ""
    /\ viperConfig = NoConfig
    /\ logOutput = Stderr
    /\ logFlags = LdateLtime
    /\ lastLog = LogLine("", "")
    /\ req = [r \in Requests |-> IdleRequest]

\* The server handling one request at a time, on goroutine 1.
NextSerial == MainNext \/ RequestNext(1)

Spec == Init /\ [][NextSerial]_vars

\* The server started with -token and -port alone (no environment variable,
\* no config file), with and without -debug, handling NumRequests requests
\* at the same time.
InitConcurrent ==
    /\ Init
    /\ args.token = "flagKey"
    /\ args.port = "7070"
    /\ env = [WEATHER_API_TOKEN |-> Unset, MM_LISTEN_PORT |-> Unset]
    /\ configFile = Unreadable

NextConcurrent == MainNext \/ \E r \in Requests : RequestNext(r)

SpecConcurrent == InitConcurrent /\ [][NextConcurrent]_vars

----------------------------------------------------------------------------
(* Properties                                                              *)

LogPcs == {"SetOutput", "SetFlags", "Printf"}

\* Where the goroutine is in weatherHandler/callWeatherAPI, a LogMessage call
\* in progress counted at the place it returns to.
At(rec) == IF rec.pc \in LogPcs THEN rec.ret ELSE rec.pc

\* callWeatherAPI has been called for the request.
Called(rec) == At(rec) \in {"L140", "L153", "L160", "L101", "done"}

\* callWeatherAPI has returned an error for the request.
CallFailed(rec) == rec.err # ""

\* C1: whenever callWeatherAPI returns an error, the response is HTTP 500
\* with the error's text as a non-empty plain-text body; no JSON envelope is
\* produced and nothing else is done for the request: no document is
\* extracted from, no status 200 is written, the status is committed once.
C1_ErrorGives500 ==
    \A r \in Requests :
        CallFailed(req[r]) =>
            /\ req[r].apiResponse = NoDoc
            /\ req[r].respBody.kind # "json"
            /\ req[r].status \in {0, StatusInternalServerError}
            /\ req[r].commits <= 1
            /\ req[r].pc = "done" =>
                  /\ req[r].status = StatusInternalServerError
                  /\ req[r].commits = 1
                  /\ req[r].contentType = "text/plain; charset=utf-8"
                  /\ req[r].respBody.kind = "text"
                  /\ req[r].respBody.text = <<req[r].err, "\n">>
                  /\ req[r].respBody.text[1] # ""

C1_Witness ==
    \E r \in Requests :
        /\ req[r].pc = "done"
        /\ req[r].err = GetError
        /\ req[r].status = StatusInternalServerError
        /\ req[r].respBody.text = <<GetError, "\n">>

\* C2: HTTP 200 with the envelope is returned only when the provider call
\* succeeded; whenever the provider answers with a non-success status
\* ("location not found", "quota exceeded"), as when the network fails,
\* callWeatherAPI returns an error and the response is HTTP 500 with a
\* plain-text body.
C2_UpstreamFailureGives500 ==
    \A r \in Requests :
        /\ req[r].status = StatusOK => req[r].provStatus = 200
        /\ (req[r].pc = "done" /\ req[r].provStatus # 200) =>
              /\ CallFailed(req[r])
              /\ req[r].status = StatusInternalServerError
              /\ req[r].respBody.kind = "text"

\* C3: every request issues exactly one outbound GET, also after a failure,
\* and commits exactly one status: 200 with Content-Type application/json
\* and an envelope of response_type "in_channel", or 500 with a plain-text
\* error; a failed body write after the 200 is logged at ERROR and the
\* status stays 200.
C3_OneGetOneStatus ==
    \A r \in Requests :
        /\ req[r].gets <= 1
        /\ req[r].commits <= 1
        /\ At(req[r]) \in {"L153", "L160", "L101", "done"} => req[r].gets = 1
        /\ req[r].pc = "done" =>
              /\ req[r].commits = 1
              /\ \/ /\ req[r].status = StatusOK
                    /\ req[r].contentType = "application/json"
                    /\ req[r].respBody.kind = "json"
                    /\ req[r].respBody.response_type = "in_channel"
                 \/ /\ req[r].status = StatusInternalServerError
                    /\ req[r].contentType = "text/plain; charset=utf-8"
                    /\ req[r].respBody.kind = "text"
        /\ req[r].writeErr =>
              /\ req[r].status = StatusOK
              /\ req[r].commits = 1
              /\ req[r].respBody.kind = "json"
              /\ req[r].pc \in LogPcs \cup {"done"}
              /\ req[r].level = errorLevel

C3_Witness ==
    \E r \in Requests :
        /\ req[r].pc = "done"
        /\ req[r].writeErr
        /\ req[r].gets = 1
        /\ req[r].status = StatusOK
        /\ lastLog.level = errorLevel

\* The text parameter of the inbound request, if it is there and not empty.
HasText(rec) == \E p \in rec.query : p[1] = "text" /\ p[2] # ""

\* C4: the location passed to callWeatherAPI is "auto:ip" when the text
\* parameter is absent or empty, and the parameter's value otherwise.
C4_LocationPassed ==
    \A r \in Requests :
        Called(req[r]) =>
            IF HasText(req[r])
            THEN <<"text", req[r].callLocation>> \in req[r].query
            ELSE req[r].callLocation = "auto:ip"

C4_Witness ==
    \E r \in Requests :
        /\ Called(req[r])
        /\ req[r].query = {}
        /\ req[r].callLocation = "auto:ip"

\* What the claim expects of each field: the value when it is there with the
\* expected type, the zero value otherwise.
ExpectedString(doc, field) ==
    IF doc.kind = "object" /\ doc[field].t = "string" THEN doc[field].s ELSE ""
ExpectedNumber(doc, field) ==
    IF doc.kind = "object" /\ doc[field].t = "number" THEN doc[field].n ELSE 0

\* The provider answered with status 200 and the body was read in full.
ProviderCallSucceeded(rec) == rec.provStatus = 200 /\ rec.body # NoDoc

\* The response is HTTP 200 with the envelope, each of name, temperature and
\* condition being the body's value when it is there with the expected type
\* and the zero value ("" or 0) otherwise, independently of the other two.
LenientEnvelope(rec) ==
    /\ rec.status = StatusOK
    /\ rec.respBody.kind = "json"
    /\ rec.respBody.response_type = "in_channel"
    /\ Len(rec.respBody.text) = 6
    /\ rec.respBody.text[1] = "Current weather in "
    /\ rec.respBody.text[2] = ExpectedString(rec.body, "name")
    /\ rec.respBody.text[4] = ExpectedNumber(rec.body, "temp")
    /\ rec.respBody.text[6] = ExpectedString(rec.body, "cond")

\* C8 as claimed: when the provider call succeeds with a body that is valid
\* JSON (an object, null, or any other JSON value such as an array), the
\* request ends with HTTP 200 and the envelope, missing or wrongly typed
\* fields being replaced by their zero values.
C8_ValidJSONGives200 ==
    \A r \in Requests :
        (/\ req[r].pc = "done"
         /\ ProviderCallSucceeded(req[r])
         /\ req[r].body.kind \in {"object", "deep", "null", "array"}) =>
            LenientEnvelope(req[r])

\* A body encoding/json decodes into a map: JSON null, or a JSON object
\* within the nesting limit whose numbers all fit float64.
DecodesToMap(body) ==
    \/ body.kind = "null"
    \/ /\ body.kind = "object"
       /\ \A f \in {"name", "temp", "cond", "error"} : body[f].t # "huge"

\* C8: when the provider call succeeds with a body that is JSON null or a
\* JSON object encoding/json accepts (nesting within its limit, every number
\* within float64), the request ends with HTTP 200 and the envelope: each of
\* location.name, current.temp_c and current.condition.text that is missing
\* or of the wrong type is replaced by the zero value of its type,
\* independently of the other two.
C8_LenientExtraction ==
    \A r \in Requests :
        (/\ req[r].pc = "done"
         /\ ProviderCallSucceeded(req[r])
         /\ DecodesToMap(req[r].body)) =>
            LenientEnvelope(req[r])

\* The provider body {} gives name "", temperature 0 and condition "".
C8_Witness ==
    \E r \in Requests :
        /\ req[r].pc = "done"
        /\ req[r].body = Doc("object", JMissing, JMissing, JMissing, JMissing)
        /\ req[r].status = StatusOK
        /\ req[r].respBody.text[2] = ""
        /\ req[r].respBody.text[4] = 0
        /\ req[r].respBody.text[6] = ""

\* The first value of a sequence of strings that is not empty ("" if none).
FirstNonEmpty(values) ==
    IF \E i \in 1..Len(values) : values[i] # ""
    THEN values[CHOOSE i \in 1..Len(values) :
                   values[i] # "" /\ \A j \in 1..(i - 1) : values[j] = ""]
    ELSE ""

\* What each source of the API key yields: the -token flag, WEATHER_API_TOKEN,
\* apiKey of the config file if it can be read.
KeySources ==
    <<args.token, env.WEATHER_API_TOKEN.val,
      IF configFile.readable THEN configFile.apiKey ELSE "">>

\* What each source of the port yields: the -port flag, MM_LISTEN_PORT,
\* listenPort of the config file if it can be read, the default.
PortSources ==
    <<args.port, env.MM_LISTEN_PORT.val,
      IF configFile.readable THEN configFile.listenPort ELSE "", "8080">>

KeyResolved == mainPc \in {"L224", "L244", "serving", "panicListen"}

\* C5: the API key used is the first non-empty value of flag, environment
\* variable and config file, in that order, and the process exits with
\* status 2 exactly when none of the three yields a non-empty value.
C5_FirstNonEmptyKey ==
    /\ KeyResolved => weatherAPIKey = FirstNonEmpty(KeySources)
    /\ mainPc = "exit2" => FirstNonEmpty(KeySources) = ""
    /\ (mainPc \notin {"start", "L196"} /\ FirstNonEmpty(KeySources) = "") =>
          mainPc \in {"exit2", "panicConfig"}

\* C6: in every startup that reaches the listener the port is the first
\* non-empty value of flag, environment variable, config file's listenPort
\* and "8080", in that order, whichever source gave the API key; it is
\* never empty.
C6_FirstNonEmptyPort ==
    mainPc = "serving" =>
        /\ listenPort = FirstNonEmpty(PortSources)
        /\ listenPort # ""

\* The lookup chain of the API key ends empty: the flag is empty and either
\* the variable is set and empty, or it is unset and the file has no key.
NoKeyFound ==
    /\ args.token = ""
    /\ \/ env.WEATHER_API_TOKEN.set /\ env.WEATHER_API_TOKEN.val = ""
       \/ ~env.WEATHER_API_TOKEN.set /\ configFile.readable /\ configFile.apiKey = ""

\* The startup has to read the config file and cannot.
ConfigUnreadable ==
    args.token = "" /\ ~env.WEATHER_API_TOKEN.set /\ ~configFile.readable

Handling(r) == req[r].pc # "idle"

C7_Inv ==
    /\ mainPc \in {"serving", "panicListen"} => weatherAPIKey # ""
    /\ \A r \in Requests : Handling(r) => mainPc = "serving"
    /\ (mainPc \notin {"start", "L196"} /\ NoKeyFound) => mainPc = "exit2"
    /\ (mainPc \notin {"start", "L196"} /\ ConfigUnreadable) => mainPc = "panicConfig"
    /\ \A r \in Requests :
          req[r].gets > 0 => req[r].keyUsed = weatherAPIKey /\ req[r].keyUsed # ""

C7_Step ==
    /\ mainPc \in {"exit2", "panicConfig", "panicListen"} => mainPc' = mainPc
    /\ mainPc = "serving" =>
          /\ mainPc' = "serving"
          /\ weatherAPIKey' = weatherAPIKey
          /\ listenPort' = listenPort

\* C7: the listener serves only after a non-empty API key is stored in
\* weatherAPIKey; a startup that finds no key ends with exit status 2 and a
\* startup that has to read the config file and cannot aborts, both for
\* good and before any request is handled; once serving, the key and the
\* port never change, and every outbound GET carries that non-empty key.
C7_KeyBeforeServing == []C7_Inv /\ [][C7_Step]_vars

C7_Witness ==
    /\ mainPc = "serving"
    /\ weatherAPIKey = "fileKey"
    /\ \E r \in Requests : req[r].pc = "done" /\ req[r].keyUsed = "fileKey"

\* C9, second half: the response is a function of the request's own provider
\* reply.
C9_OwnResponse ==
    \A r \in Requests :
        req[r].pc = "done" =>
            req[r].respBody = IF CallFailed(req[r])
                              THEN PlainBody(req[r].err)
                              ELSE MarshalPayload(ResponsePayload(req[r].body)).json

\* C9: under any interleaving of requests, request handling writes no
\* process-wide state (the API key and the port are only read, and nothing
\* else is shared), and each response depends only on the request's own
\* data.
C9_NoSharedWrites ==
    /\ []C9_OwnResponse
    /\ [][mainPc = "serving" =>
            UNCHANGED <<weatherAPIKey, listenPort, debugMode, logOutput, logFlags>>]_vars

\* C10: under any interleaving of requests, every line logged at ERROR goes
\* to stderr and every line logged at another level goes to stdout.
C10_LogDestination ==
    lastLog.level # "" =>
        lastLog.dest = IF lastLog.level = "ERROR" THEN "stderr" ELSE "stdout"

====
